---- MODULE Spec2Model ----
(***************************************************************************)
(* Model of the saved-search parameter resolution of linkding-cn:          *)
(* BookmarkBundle.search_object and BookmarkSearch (bookmarks/models.py),  *)
(* driven by the index and search_action views (bookmarks/views/           *)
(* bookmarks.py).                                                          *)
(*                                                                         *)
(* Python values are records [t, s, n]: t is the type ("none", "str",      *)
(* "date", "int", "bundle"), s the text of a str, n the number of an int,  *)
(* the ordinal of a date or the primary key of a bundle object.  A date's  *)
(* ordinal is its day of the year 2024 (2024-01-01 = 1).  A Python dict is *)
(* a function whose domain is the set of its keys.                         *)
(*                                                                         *)
(* The module also models the relative date tokens                         *)
(* (BookmarkSearch.parse_relative_date_string), the per-domain settings    *)
(* file with its cache (search_config_for_domain and load_settings of      *)
(* bookmarks/utils.py, called by load_website_metadata and create_snapshot)*)
(* and the extension loader (load_module), the same functions run          *)
(* statement by statement by several threads, and the page fetch of        *)
(* services/website_loader.py (load_page, load_full_page and the request   *)
(* they build).  Each has its own variables and its own specification; a   *)
(* specification leaves the variables of the others at their initial       *)
(* values.                                                                 *)
(***************************************************************************)
EXTENDS Integers, Sequences, FiniteSets, TLC

VARIABLES bundles, search_preferences, query, search, location,
          date_today, token, derived,
          config_file, settings_cache, extension_file, module_cache, executions, outcome,
          threads, request, fetch

\* the variables of the search requests
searchVars == <<bundles, search_preferences, query, search, location>>

\* the variables of the relative date resolver
dateVars == <<date_today, token, derived>>

\* the variables of the settings file, the extension file and their caches
configVars == <<config_file, settings_cache, extension_file, module_cache, executions, outcome>>

\* the threads that run a call statement by statement
threadVars == <<threads>>

\* the request sent for a page and the fetch of its body
fetchVars == <<request, fetch>>

vars == <<searchVars, dateVars, configVars, threadVars, fetchVars>>

----------------------------------------------------------------------------
(* Python values *)

None == [t |-> "none", s |-> "", n |-> 0]

Str(x) == [t |-> "str", s |-> x, n |-> 0]

DateObj(d) == [t |-> "date", s |-> "", n |-> d]

IntObj(i) == [t |-> "int", s |-> "", n |-> i]

BundleObj(pk) == [t |-> "bundle", s |-> "", n |-> pk]

\* bool(v): None and "" are falsy; dates and model instances are truthy
Truthy(v) ==
    CASE v.t = "none" -> FALSE
      [] v.t = "str" -> v.s # ""
      [] v.t = "int" -> v.n # 0
      [] OTHER -> TRUE

\* a or b
PyOr(a, b) == IF Truthy(a) THEN a ELSE b

\* d.get(k)
Get(d, k) == IF k \in DOMAIN d THEN d[k] ELSE None

EmptyDict == << >>

\* {**a, **b}
Merge(a, b) ==
    [k \in DOMAIN a \cup DOMAIN b |-> IF k \in DOMAIN b THEN b[k] ELSE a[k]]

----------------------------------------------------------------------------
(* Dates of the year 2024 and their text *)

MonthDays == <<31, 29, 31, 30, 31, 30, 31, 31, 30, 31, 30, 31>>

RECURSIVE DaysBefore(_)
DaysBefore(m) == IF m <= 1 THEN 0 ELSE DaysBefore(m - 1) + MonthDays[m - 1]

Ordinal(m, d) == DaysBefore(m) + d

MonthOf(d) == CHOOSE m \in 1..12 : DaysBefore(m) < d /\ d <= DaysBefore(m) + MonthDays[m]

\* date.weekday(): 0 is Monday; 2024-01-01 was a Monday
Weekday(d) == (d - 1) % 7

\* the date strings of the model and the dates datetime.strptime(s, "%Y-%m-%d") gives
IsoDates == {<<"2024-06-01", Ordinal(6, 1)>>, <<"2024-06-04", Ordinal(6, 4)>>,
             <<"2024-06-10", Ordinal(6, 10)>>, <<"2024-06-30", Ordinal(6, 30)>>}

\* datetime.strptime(s, "%Y-%m-%d").date(): ok is FALSE where it raises ValueError
strptime(s) ==
    IF \E p \in IsoDates : p[1] = s
    THEN [ok |-> TRUE, date |-> DateObj((CHOOSE p \in IsoDates : p[1] = s)[2])]
    ELSE [ok |-> FALSE, date |-> None]

\* str(date): the ISO text of a date
isoformat(d) ==
    IF \E p \in IsoDates : p[2] = d
    THEN (CHOOSE p \in IsoDates : p[2] = d)[1]
    ELSE "2024-??-??"

\* date.today()
Today == Ordinal(6, 10)

\* date.min, 0001-01-01, on the scale of the ordinals: 2024-01-01 is day 738886
DateMin == 1 - 738885

\* the largest number of days of a timedelta
TimedeltaMax == 999999999

----------------------------------------------------------------------------
(* Relative date tokens *)

\* the characters of the token strings of the model
Chars(s) ==
    CASE s = "last_7_days" ->
            <<"l", "a", "s", "t", "_", "7", "_", "d", "a", "y", "s">>
      [] s = "last_1_week" ->
            <<"l", "a", "s", "t", "_", "1", "_", "w", "e", "e", "k">>
      [] s = "junk" ->
            <<"j", "u", "n", "k">>
      [] s = "today" ->
            <<"t", "o", "d", "a", "y">>
      [] s = "yesterday" ->
            <<"y", "e", "s", "t", "e", "r", "d", "a", "y">>
      [] s = "this_week" ->
            <<"t", "h", "i", "s", "_", "w", "e", "e", "k">>
      [] s = "this_month" ->
            <<"t", "h", "i", "s", "_", "m", "o", "n", "t", "h">>
      [] s = "this_year" ->
            <<"t", "h", "i", "s", "_", "y", "e", "a", "r">>
      [] s = "last_0_days" ->
            <<"l", "a", "s", "t", "_", "0", "_", "d", "a", "y", "s">>
      [] s = "last_1_day" ->
            <<"l", "a", "s", "t", "_", "1", "_", "d", "a", "y">>
      [] s = "last_10_days" ->
            <<"l", "a", "s", "t", "_", "1", "0", "_", "d", "a", "y", "s">>
      [] s = "last_2_weeks" ->
            <<"l", "a", "s", "t", "_", "2", "_", "w", "e", "e", "k", "s">>
      [] s = "last_1_month" ->
            <<"l", "a", "s", "t", "_", "1", "_", "m", "o", "n", "t", "h">>
      [] s = "last_3_months" ->
            <<"l", "a", "s", "t", "_", "3", "_", "m", "o", "n", "t", "h", "s">>
      [] s = "last_1_year" ->
            <<"l", "a", "s", "t", "_", "1", "_", "y", "e", "a", "r">>
      [] s = "last_2025_years" ->
            <<"l", "a", "s", "t", "_", "2", "0", "2", "5", "_", "y", "e", "a", "r", "s">>
      [] s = "last_7_daysX" ->
            <<"l", "a", "s", "t", "_", "7", "_", "d", "a", "y", "s", "X">>
      [] s = "xlast_7_days" ->
            <<"x", "l", "a", "s", "t", "_", "7", "_", "d", "a", "y", "s">>
      [] s = "last__days" ->
            <<"l", "a", "s", "t", "_", "_", "d", "a", "y", "s">>
      [] s = "last_7_hours" ->
            <<"l", "a", "s", "t", "_", "7", "_", "h", "o", "u", "r", "s">>
      [] s = "TODAY" ->
            <<"T", "O", "D", "A", "Y">>
      [] OTHER -> << >>

Digits == {"0", "1", "2", "3", "4", "5", "6", "7", "8", "9"}

DigitVal(c) ==
    CASE c = "0" -> 0 [] c = "1" -> 1 [] c = "2" -> 2 [] c = "3" -> 3 [] c = "4" -> 4
      [] c = "5" -> 5 [] c = "6" -> 6 [] c = "7" -> 7 [] c = "8" -> 8 [] OTHER -> 9

StartsWithAt(c, i, p) ==
    /\ i + Len(p) - 1 <= Len(c)
    /\ \A k \in 1..Len(p) : c[i + k - 1] = p[k]

RECURSIVE DigitRunEnd(_, _)
\* the index after the longest run of digits of c that starts at i
DigitRunEnd(c, i) ==
    IF i <= Len(c) /\ c[i] \in Digits THEN DigitRunEnd(c, i + 1) ELSE i

RECURSIVE IntOf(_, _, _)
\* int() of the digits c[i..j-1]
IntOf(c, i, j) == IF j <= i THEN 0 ELSE IntOf(c, i, j - 1) * 10 + DigitVal(c[j - 1])

UnitNames == << <<"d", "a", "y">>, <<"w", "e", "e", "k">>,
                <<"m", "o", "n", "t", "h">>, <<"y", "e", "a", "r">> >>

UnitDays == <<1, 7, 30, 365>>

\* The rest of the pattern after the digits c[6..j-1]: "_", then a unit name
MatchUnit(c, j) ==
    IF /\ StartsWithAt(c, 1, <<"l", "a", "s", "t", "_">>)
       /\ j > 6
       /\ StartsWithAt(c, j, <<"_">>)
       /\ \E u \in 1..4 : StartsWithAt(c, j + 1, UnitNames[u])
    THEN [ok |-> TRUE, value |-> IntOf(c, 6, j),
          unit |-> CHOOSE u \in 1..4 : StartsWithAt(c, j + 1, UnitNames[u])]
    ELSE [ok |-> FALSE, value |-> 0, unit |-> 0]

\* re.match(r"last_(\d+)_(day|week|month|year)s?", s) on the characters c of s: a
\* match of a prefix of s
MatchLast(c) == MatchUnit(c, DigitRunEnd(c, 6))

\* the pair a call returns; raised names the exception of a call that raises
Range(a, b) == [start |-> a, end |-> b, raised |-> ""]

Raise(e) == [start |-> None, end |-> None, raised |-> e]

\* day - timedelta(days=n): OverflowError when n is no timedelta or the date is
\* before date.min
MinusDays(day, n) ==
    IF n > TimedeltaMax \/ day - n < DateMin
    THEN Raise("OverflowError")
    ELSE Range(DateObj(day - n), DateObj(day))

\* The branch of parse_relative_date_string for the match m
LastRange(m, day) ==
    IF m.ok
    THEN MinusDays(day, m.value * UnitDays[m.unit] - 1)
    ELSE Range(None, None)

parse_relative_date_string(s, day) ==
    IF s = "today" THEN Range(DateObj(day), DateObj(day))
    ELSE IF s = "yesterday" THEN Range(DateObj(day - 1), DateObj(day - 1))
    ELSE IF s = "this_week"
    THEN Range(DateObj(day - Weekday(day)), DateObj(day - Weekday(day) + 6))
    ELSE IF s = "this_month"
    THEN Range(DateObj(Ordinal(MonthOf(day), 1)),
               DateObj(Ordinal(MonthOf(day), MonthDays[MonthOf(day)])))
    ELSE IF s = "this_year" THEN Range(DateObj(Ordinal(1, 1)), DateObj(Ordinal(12, 31)))
    ELSE LastRange(MatchLast(Chars(s)), day)

----------------------------------------------------------------------------
(* BookmarkSearch and BookmarkBundle *)

\* BookmarkSearch.params
params == <<"q", "user", "bundle", "sort", "shared", "unread", "tagged",
            "modified_since", "added_since", "deleted_since", "date_filter_by",
            "date_filter_type", "date_filter_relative_string",
            "date_filter_start", "date_filter_end">>

ParamSet == {params[i] : i \in DOMAIN params}

\* BookmarkSearch.preferences
preferences == <<"sort", "shared", "unread", "tagged", "date_filter_by",
                 "date_filter_type", "date_filter_relative_string">>

PreferenceSet == {preferences[i] : i \in DOMAIN preferences}

DateFields == {"date_filter_start", "date_filter_end"}

\* BookmarkSearch.defaults
defaults ==
    [p \in ParamSet |->
        CASE p \in {"q", "user"} -> Str("")
          [] p = "sort" -> Str("added_desc")
          [] p \in {"shared", "unread", "tagged", "date_filter_by"} -> Str("off")
          [] p = "date_filter_type" -> Str("absolute")
          [] OTHER -> None]

\* the closed vocabularies: the SORT_* and FILTER_* constants of BookmarkSearch
Vocabulary(p) ==
    CASE p = "sort" -> {"added_asc", "added_desc", "title_asc", "title_desc", "random",
                        "deleted_asc", "deleted_desc"}
      [] p \in {"shared", "unread", "tagged"} -> {"off", "yes", "no"}
      [] p = "date_filter_by" -> {"off", "added", "modified", "deleted"}
      [] p = "date_filter_type" -> {"absolute", "relative"}
      [] OTHER -> {}

EnumFields == {"sort", "shared", "unread", "tagged", "date_filter_by", "date_filter_type"}

\* BookmarkSearch.__init__ that leaves the preferences out of self.defaults
BookmarkSearchHardDefaults(kw, bundle, prefs, tbl) ==
    LET user_params == [p \in ParamSet |-> IF p = "bundle" THEN bundle ELSE Get(kw, p)]
        bundle_params == IF Truthy(bundle) THEN tbl[bundle.n].search_params ELSE EmptyDict
        final_value(p) ==
            IF user_params[p] # None
            THEN user_params[p]
            ELSE PyOr(Get(bundle_params, p), Get(defaults, p))
    IN  [attrs |-> [p \in ParamSet |-> final_value(p)], defaults |-> defaults]

\* BookmarkSearch.__init__ called with the keyword arguments kw (a dict), the bundle
\* object bundle (None, or the bundle of the table tbl it refers to) and the
\* preferences prefs
BookmarkSearch(kw, bundle, prefs, tbl) ==
    LET self_defaults == Merge(defaults, IF prefs = None THEN EmptyDict ELSE prefs)
        user_params == [p \in ParamSet |-> IF p = "bundle" THEN bundle ELSE Get(kw, p)]
        bundle_params == IF Truthy(bundle) THEN tbl[bundle.n].search_params ELSE EmptyDict
        final_value(p) ==
            IF user_params[p] # None
            THEN user_params[p]
            ELSE PyOr(Get(bundle_params, p), Get(self_defaults, p))
    IN  [attrs |-> [p \in ParamSet |-> final_value(p)], defaults |-> self_defaults]

\* search_object without the copy: it works on the bundle's own dict
DictNoCopy(d) == [dict |-> d, shared |-> TRUE]

\* self.search_params.copy(): the dict search_object works on, and whether its
\* writes reach the bundle's own search_params
DictCopy(d) == [dict |-> d, shared |-> FALSE]

\* The loop body of search_object for one date field f of the dict d
ParseDateField(d, f) ==
    IF f \in DOMAIN d /\ Truthy(d[f])
    THEN IF d[f].t = "str"
         THEN IF strptime(d[f].s).ok
              THEN [d EXCEPT ![f] = strptime(d[f].s).date]
              ELSE [k \in DOMAIN d \ {f} |-> d[k]]
         ELSE d
    ELSE d

\* The loop of search_object over the two date fields
ParseDateFields(d) ==
    ParseDateField(ParseDateField(d, "date_filter_start"), "date_filter_end")

\* The table of bundles after search_object of the bundle pk has run
SearchObjectHeap(tbl, pk) ==
    IF DictCopy(tbl[pk].search_params).shared
    THEN [tbl EXCEPT ![pk].search_params = ParseDateFields(tbl[pk].search_params)]
    ELSE tbl

\* BookmarkBundle.search_object of the bundle pk of the table tbl
search_object(tbl, pk) ==
    BookmarkSearch(ParseDateFields(DictCopy(tbl[pk].search_params).dict), BundleObj(pk),
                   None, SearchObjectHeap(tbl, pk))

\* The date_filter_start and date_filter_end properties, and plain attribute reads
Effective(s, p, today) ==
    IF /\ p \in DateFields
       /\ s.attrs["date_filter_type"] = Str("relative")
       /\ Truthy(s.attrs["date_filter_relative_string"])
    THEN PyOr(IF p = "date_filter_start"
              THEN parse_relative_date_string(s.attrs["date_filter_relative_string"].s,
                                              today).start
              ELSE parse_relative_date_string(s.attrs["date_filter_relative_string"].s,
                                              today).end,
              s.attrs[p])
    ELSE s.attrs[p]

\* is_modified without the exception for the relative mode
is_modified_no_exception(s, p) == s.attrs[p] # s.defaults[p]

is_modified(s, p) ==
    IF s.attrs["date_filter_type"] = Str("relative") /\ p \in DateFields
    THEN FALSE
    ELSE s.attrs[p] # s.defaults[p]

modified_params(s) == {p \in ParamSet : is_modified(s, p)}

\* value.id for a model instance, the value itself otherwise
IdOrValue(v) == IF v.t = "bundle" THEN IntObj(v.n) ELSE v

\* query_params, lines 448-453: the value of param on the search x
ParamValue(x, p, today) == IF p \in DateFields THEN Effective(x, p, today) ELSE x.attrs[p]

\* query_params, lines 456-463: whether the date fields are skipped, b being the
\* bundle's search_object
DatesSkipped(s, b, today) ==
    \/ s.attrs["date_filter_type"] = Str("relative")
    \/ /\ s.attrs["date_filter_type"] = Str("absolute")
       /\ Effective(s, "date_filter_start", today) = Effective(b, "date_filter_start", today)
       /\ Effective(s, "date_filter_end", today) = Effective(b, "date_filter_end", today)

\* The loop of query_params without the comparison against the bundle's value
EmittedUncompared(s, b, p, today) ==
    /\ ~(p \in DateFields /\ DatesSkipped(s, b, today))
    /\ ParamValue(s, p, today) # None
    /\ ParamValue(s, p, today) # Str("")

\* query_params, lines 446-470: whether the loop writes param p
Emitted(s, b, p, today) ==
    /\ ~(p \in DateFields /\ DatesSkipped(s, b, today))
    /\ ParamValue(s, p, today) # None
    /\ ParamValue(s, p, today) # Str("")
    /\ ParamValue(s, p, today) # ParamValue(b, p, today)

\* query_params of a search with a bundle, b being the bundle's search_object
BundleQueryParams(s, b, today) ==
    [p \in {"bundle"} \cup {x \in ParamSet : Emitted(s, b, x, today)} |->
        IdOrValue(ParamValue(s, p, today))]

\* BookmarkSearch.query_params
query_params(s, tbl, today) ==
    IF Truthy(s.attrs["bundle"])
    THEN BundleQueryParams(s, search_object(tbl, s.attrs["bundle"].n), today)
    ELSE [p \in modified_params(s) |-> IdOrValue(s.attrs[p])]

\* The table of bundles after query_params has run
QueryParamsHeap(s, tbl) ==
    IF Truthy(s.attrs["bundle"]) THEN SearchObjectHeap(tbl, s.attrs["bundle"].n) ELSE tbl

preferences_dict(s) == [p \in PreferenceSet |-> s.attrs[p]]

\* str(v), as urllib.parse.urlencode applies it to the values of a dict
PyStr(v) ==
    CASE v.t = "str" -> v.s
      [] v.t = "date" -> isoformat(v.n)
      [] v.t = "int" -> ToString(v.n)
      [] v.t = "bundle" -> ToString(v.n)
      [] OTHER -> "None"

\* urlencode(d) read back as the QueryDict of the request that follows the link
urlencode(d) == [k \in DOMAIN d |-> Str(PyStr(d[k]))]

\* The bundle lookup without the owner filter
FindBundleAnyOwner(tbl, user, bundle_id) ==
    IF \E pk \in DOMAIN tbl : ToString(pk) = bundle_id.s /\ tbl[pk].exists
    THEN BundleObj(CHOOSE pk \in DOMAIN tbl : ToString(pk) = bundle_id.s)
    ELSE None

\* BookmarkBundle.objects.filter(owner=user, pk=bundle_id).first()
FindBundle(tbl, user, bundle_id) ==
    IF \E pk \in DOMAIN tbl :
           ToString(pk) = bundle_id.s /\ tbl[pk].exists /\ tbl[pk].owner = user
    THEN BundleObj(CHOOSE pk \in DOMAIN tbl : ToString(pk) = bundle_id.s)
    ELSE None

\* from_request, lines 491-497: the bundle of the request, or None
RequestedBundle(tbl, user, query_dict) ==
    IF Truthy(Get(query_dict, "bundle"))
    THEN FindBundle(tbl, user, query_dict["bundle"])
    ELSE None

\* from_request, lines 499-504: the non-empty explicit values
InitialValues(query_dict) ==
    [p \in {x \in ParamSet \ {"bundle"} : Truthy(Get(query_dict, x))} |-> query_dict[p]]

\* setattr only where the bundle's search still holds the default
SetAttrsBundleFirst(s, values) ==
    [s EXCEPT !.attrs = [p \in ParamSet |->
        IF p \in DOMAIN values /\ @[p] = s.defaults[p] THEN values[p] ELSE @[p]]]

\* from_request, lines 508-509: setattr(search, param, value) for every explicit value
SetAttrs(s, values) ==
    [s EXCEPT !.attrs = [p \in ParamSet |-> IF p \in DOMAIN values THEN values[p] ELSE @[p]]]

\* from_request, lines 506-514, for the bundle found and the explicit values
BuildSearch(bundle, initial_values, prefs, tbl) ==
    IF Truthy(bundle)
    THEN SetAttrs(search_object(tbl, bundle.n), initial_values)
    ELSE BookmarkSearch(initial_values, None, prefs, tbl)

\* BookmarkSearch.from_request for the user user
from_request(user, query_dict, prefs, tbl) ==
    BuildSearch(RequestedBundle(tbl, user, query_dict), InitialValues(query_dict), prefs, tbl)

\* The table of bundles after from_request has run
FromRequestHeap(user, query_dict, tbl) ==
    IF Truthy(RequestedBundle(tbl, user, query_dict))
    THEN SearchObjectHeap(tbl, RequestedBundle(tbl, user, query_dict).n)
    ELSE tbl

----------------------------------------------------------------------------
(* The inputs of the model *)

\* at most this many explicit parameters, besides the bundle id, in one request
MaxQueryKeys == 2

\* at most this many keys in a bundle's stored search_params
MaxBundleKeys == 2

\* the user whose requests are modelled, and another user
Requester == "alice"

Users == {"alice", "bob"}

BundleIds == {1}

\* the values a request may carry for a parameter
QueryValues(p) ==
    CASE p = "q" -> {"foo"}
      [] p = "sort" -> {"random", "bogus"}
      [] p = "tagged" -> {"yes", ""}
      [] p = "date_filter_type" -> {"relative", "absolute"}
      [] p = "date_filter_relative_string" -> {"last_7_days", "junk"}
      [] p = "date_filter_start" -> {"2024-06-01"}
      [] p = "date_filter_end" -> {"2024-06-30"}
      [] OTHER -> {}

\* the values a bundle may store for a parameter
BundleValues(p) ==
    CASE p = "sort" -> {"title_asc"}
      [] p = "date_filter_type" -> {"relative"}
      [] p = "date_filter_relative_string" -> {"last_7_days"}
      [] p = "date_filter_start" -> {"2024-06-01", "not-a-date"}
      [] p = "date_filter_end" -> {"2024-06-30"}
      [] OTHER -> {}

\* the dicts of at most max keys whose values are drawn from Values
Dicts(Values(_), max) ==
    LET keys == {p \in ParamSet : Values(p) # {}}
        all == UNION {Values(p) : p \in keys}
    IN  UNION {{[k \in K |-> Str(f[k])] : f \in {g \in [K -> all] : \A k \in K : g[k] \in Values(k)}} :
               K \in {S \in SUBSET keys : Cardinality(S) <= max}}

QueryDicts ==
    LET plain == Dicts(QueryValues, MaxQueryKeys)
    IN  plain \cup {Merge(d, [k \in {"bundle"} |-> Str(ToString(pk))]) :
                       d \in plain, pk \in BundleIds}

\* the forms posted with "save": one preference at a time
SaveDicts == {d \in QueryDicts : DOMAIN d \subseteq PreferenceSet /\ Cardinality(DOMAIN d) <= 1}

BundleDicts == Dicts(BundleValues, MaxBundleKeys)

NoBundle == [exists |-> FALSE, owner |-> "", search_params |-> EmptyDict]

NoRequest == [k \in {"-"} |-> None]

NoSearch == [attrs |-> EmptyDict, defaults |-> EmptyDict]

----------------------------------------------------------------------------
(* The per-domain settings file: search_config_for_domain and load_settings *)
(* of bookmarks/utils.py                                                    *)

\* the labels of the host names and keys of the model: the text between the dots
Labels(s) ==
    CASE s = "a.example.com" -> <<"a", "example", "com">>
      [] s = "example.com" -> <<"example", "com">>
      [] s = "*.example.com" -> <<"*", "example", "com">>
      [] s = "*.com" -> <<"*", "com">>
      [] OTHER -> <<s>>

\* get_domain(url): urllib.parse.urlparse(url).netloc
get_domain(url) ==
    CASE url = "https://a.example.com/page" -> "a.example.com"
      [] url = "https://example.com/" -> "example.com"
      [] OTHER -> ""

\* A settings entry that is a JSON object: n names the entry and is 0 for the
\* empty object {}, s is the file under its "loader" / "processor" key ("" when
\* the entry has none).  An alias is a Str.
ConfigEntry(id, ext) == [t |-> "dict", s |-> ext, n |-> id]

EmptyEntry == ConfigEntry(0, "")

\* bool(config) of a value of the settings map
ConfigTruthy(v) == IF v.t = "dict" THEN v.n # 0 ELSE Truthy(v)

\* The parsed settings: the pairs <<key, value>> of the JSON object, in the order
\* of the file
DomainMap(m) == [t |-> "map", s |-> "", n |-> Len(m), items |-> m]

JSON_ERROR == Str("__JSON_ERROR__")

MapKeys(m) == {m[i][1] : i \in DOMAIN m}

\* domain_map[key]
MapItem(m, key) == m[CHOOSE i \in DOMAIN m : m[i][1] = key][2]

\* domain_map.get(key)
MapGet(m, key) == IF key \in MapKeys(m) THEN MapItem(m, key) ELSE None

\* _process_path on a string: a "./" path is resolved against the directory of
\* the settings file
ResolvePath(s) == IF s = "./ext.py" THEN "/etc/linkding/ext.py" ELSE s

\* _process_path(config_data, base_dir)
process_path(m) == [i \in DOMAIN m |-> <<m[i][1], [m[i][2] EXCEPT !.s = ResolvePath(@)]>>]

\* the cache dict of load_settings: mtime 0 stands for None
Cache(value, mtime) == [cache |-> value, mtime |-> mtime]

\* cache = {} if cache is None else cache
LocalCache(cache) == IF cache = None THEN Cache(None, 0) ELSE cache

\* json.load of the file and the cache entry written for it (lines 236-247)
ParseInto(file) ==
    IF file.valid
    THEN Cache(DomainMap(process_path(file.data)), file.mtime)
    ELSE Cache(JSON_ERROR, file.mtime)

\* load_settings(path, cache) on the dict cache: the dict after the call and
\* whether the call parsed the file; the call returns cache.get("cache")
LoadSettingsInto(file, cache) ==
    IF ~file.exists
    THEN [cache |-> Cache(None, 0), parsed |-> FALSE]
    ELSE IF cache.cache = None \/ cache.mtime # file.mtime
    THEN [cache |-> ParseInto(file), parsed |-> TRUE]
    ELSE [cache |-> cache, parsed |-> FALSE]

load_settings(file, cache) == LoadSettingsInto(file, LocalCache(cache))

\* key.startswith("*.") and domain.endswith(key[1:])
WildcardMatches(key, domain) ==
    /\ Len(Labels(key)) >= 2
    /\ Labels(key)[1] = "*"
    /\ Len(Labels(domain)) > Len(Labels(key)) - 1
    /\ \A k \in 2..Len(Labels(key)) :
          Labels(domain)[Len(Labels(domain)) - Len(Labels(key)) + k] = Labels(key)[k]

RECURSIVE WildcardScan(_, _, _, _)
\* for key in domain_map: ... config = domain_map[key], from the i-th key on
WildcardScan(m, domain, i, config) ==
    IF i > Len(m) THEN config
    ELSE WildcardScan(m, domain, i + 1,
                      IF WildcardMatches(m[i][1], domain) THEN m[i][2] ELSE config)

\* lines 205-211: the entry matched for the domain
MatchDomain(m, domain) ==
    IF ConfigTruthy(MapGet(m, domain))
    THEN MapGet(m, domain)
    ELSE WildcardScan(m, domain, 1, MapGet(m, domain))

\* The alias loop has ended with config after runs executions of its body; stop
\* tells how the last alias ended it: "cycle" at the break, "unresolved" when
\* domain_map.get(alias) found no such key
Walk(config, runs, stop) == [config |-> config, runs |-> runs, stop |-> stop]

RECURSIVE AliasLoopCapped(_, _, _, _)
\* the alias loop that stops at a cap on its runs and keeps no visited set
AliasLoopCapped(m, config, visited, runs) ==
    IF config.t # "str" THEN Walk(config, runs, "")
    ELSE IF runs >= 8 THEN Walk(config, runs + 1, "cycle")
    ELSE IF config.s \notin MapKeys(m) THEN Walk(None, runs + 1, "unresolved")
    ELSE AliasLoopCapped(m, MapItem(m, config.s), visited, runs + 1)

RECURSIVE AliasLoop(_, _, _, _)
\* while isinstance(config, str): ... (lines 213-220)
AliasLoop(m, config, visited, runs) ==
    IF config.t # "str" THEN Walk(config, runs, "")
    ELSE IF config.s \in visited THEN Walk(config, runs + 1, "cycle")
    ELSE IF config.s \notin MapKeys(m) THEN Walk(None, runs + 1, "unresolved")
    ELSE AliasLoop(m, MapItem(m, config.s), visited \cup {config.s}, runs + 1)

\* What a call of search_config_for_domain gives: the value returned or the
\* exception raised, the cache dict after the call, whether the file was parsed,
\* the entry matched for the domain and the course of the alias loop
Returned(matched, walk, ls) ==
    [config |-> walk.config, raised |-> "", cache |-> ls.cache, parsed |-> ls.parsed,
     matched |-> matched, runs |-> walk.runs, stop |-> walk.stop]

Raised(e, cache, parsed) ==
    [config |-> None, raised |-> e, cache |-> cache, parsed |-> parsed,
     matched |-> None, runs |-> 0, stop |-> ""]

\* lines 205-222 on the parsed settings m
LookUp(m, domain, ls) ==
    Returned(MatchDomain(m, domain), AliasLoop(m, MatchDomain(m, domain), {domain}, 0), ls)

\* lines 197-200 and 205-222.  settings.path, read to format the log message, is
\* no attribute of django.conf.settings: AttributeError
SearchLoaded(url, ls) ==
    IF ls.cache.cache = JSON_ERROR
    THEN Raised("AttributeError", ls.cache, ls.parsed)
    ELSE LookUp(ls.cache.cache.items, get_domain(url), ls)

search_config_for_domain(url, file, cache) ==
    IF file.exists
    THEN SearchLoaded(url, load_settings(file, cache))
    ELSE Raised("AttributeError", LocalCache(cache), FALSE)

----------------------------------------------------------------------------
(* Extension code: load_module of bookmarks/utils.py and its callers        *)
(* load_website_metadata (services/website_loader.py) and create_snapshot   *)
(* (services/snapshot_processor.py)                                         *)

\* the one extension file of the model
ExtPath == "/etc/linkding/ext.py"

\* os.path.join(os.path.dirname(settings_path), file)
JoinPath(s) == IF s = "ext.py" THEN ExtPath ELSE s

NoFile == [exists |-> FALSE, mtime |-> 0]

\* the file at a path: only ExtPath can hold one
FileAt(path, ext) == IF path = ExtPath THEN ext ELSE NoFile

\* the module object made by the k-th execution of an extension file
Module(k) == [t |-> "module", s |-> "", n |-> k]

\* What a call of load_module gives: the module returned, the cache dict after
\* the call and whether the file was executed
Loaded(module, cache, executed) ==
    [module |-> module, cache |-> cache, executed |-> executed, called |-> TRUE]

NotLoaded(cache) == [module |-> None, cache |-> cache, executed |-> FALSE, called |-> FALSE]

\* load_module that takes any cached module of the path, whatever its mtime
load_module_any_mtime(path, file, cache, made) ==
    IF ~file.exists THEN Loaded(None, cache, FALSE)
    ELSE IF path \notin DOMAIN cache
    THEN Loaded(Module(made + 1),
                [p \in DOMAIN cache \cup {path} |->
                    IF p = path THEN <<Module(made + 1), file.mtime>> ELSE cache[p]],
                TRUE)
    ELSE Loaded(cache[path][1], cache, FALSE)

\* load_module(path, cache) when made module objects have been made so far
load_module(path, file, cache, made) ==
    IF ~file.exists THEN Loaded(None, cache, FALSE)
    ELSE IF path \notin DOMAIN cache \/ cache[path][2] # file.mtime
    THEN Loaded(Module(made + 1),
                [p \in DOMAIN cache \cup {path} |->
                    IF p = path THEN <<Module(made + 1), file.mtime>> ELSE cache[p]],
                TRUE)
    ELSE Loaded(cache[path][1], cache, FALSE)

\* the two callers, the settings key that names their extension file and the
\* function they take from the module
Callers == {"load_website_metadata", "create_snapshot"}

\* What a caller does with the config it found: the exception it raises, or the
\* implementation it runs ("builtin" or "extension") and the config it passes
Ran(impl, config, lm) == [raised |-> "", ran |-> impl, passed |-> config, load |-> lm]

Failed(e, lm) == [raised |-> e, ran |-> "", passed |-> None, load |-> lm]

\* the body of load_website_metadata (lines 49-62) and create_snapshot (27-38) for
\* the config found
UseConfig(config, ext, cache, made) ==
    IF ~ConfigTruthy(config) THEN Ran("builtin", None, NotLoaded(cache))
    ELSE IF config.t = "str" THEN Failed("AttributeError", NotLoaded(cache))
    ELSE IF config.s = "" THEN Ran("builtin", config, NotLoaded(cache))
    ELSE IF ~FileAt(JoinPath(config.s), ext).exists THEN Ran("builtin", None, NotLoaded(cache))
    ELSE Ran("extension", config,
             load_module(JoinPath(config.s), FileAt(JoinPath(config.s), ext), cache, made))

\* load_website_metadata(url) / create_snapshot(url, filepath)
RunCaller(r, ext, cache, made) ==
    IF r.raised # "" THEN Failed(r.raised, NotLoaded(cache))
    ELSE UseConfig(r.config, ext, cache, made)

----------------------------------------------------------------------------
(* The settings file, the extension file and the calls *)

\* the bound on the modification times of the two files
MaxMtime == 3

\* the bound on the number of executions of the extension file
MaxExecutions == 4

\* the bound on the number of keys of a settings map
MaxConfigKeys == 2

Urls == {"https://a.example.com/page", "https://example.com/"}

NoConfigFile == [exists |-> FALSE, valid |-> FALSE, mtime |-> 0, data |-> << >>]

ConfigFile(valid, mtime, data) ==
    [exists |-> TRUE, valid |-> valid, mtime |-> mtime, data |-> IF valid THEN data ELSE << >>]

\* the last call: which function, with which url or path, on which module cache,
\* the files as the call found them, what search_config_for_domain gave and what
\* the caller did; tick flips with every call
Outcome(tick, call, arg, name, file, ext, r, u) ==
    [tick |-> tick, call |-> call, arg |-> arg, cache_name |-> name, seen |-> file,
     ext_seen |-> ext, search |-> r, use |-> u]

NoSearchResult == Raised("", Cache(None, 0), FALSE)

NoUse(cache) == Ran("", None, NotLoaded(cache))

NoOutcome == Outcome(0, "", "", "", NoConfigFile, NoFile, NoSearchResult, NoUse(EmptyDict))

ConfigInit ==
    /\ config_file = NoConfigFile
    /\ settings_cache = Cache(None, 0)
    /\ extension_file = NoFile
    /\ module_cache = [name \in Callers |-> EmptyDict]
    /\ executions = 0
    /\ outcome = NoOutcome

\* The settings file is written: valid JSON holding data, or text that is no JSON
WriteConfig(valid, data) ==
    /\ config_file.mtime < MaxMtime
    /\ config_file' = ConfigFile(valid, config_file.mtime + 1, data)
    /\ UNCHANGED <<settings_cache, extension_file, module_cache, executions, outcome>>

\* The settings file is removed
DeleteConfig ==
    /\ config_file.exists
    /\ config_file' = [NoConfigFile EXCEPT !.mtime = config_file.mtime]
    /\ UNCHANGED <<settings_cache, extension_file, module_cache, executions, outcome>>

\* The extension file is written
WriteExtension ==
    /\ extension_file.mtime < MaxMtime
    /\ extension_file' = [exists |-> TRUE, mtime |-> extension_file.mtime + 1]
    /\ UNCHANGED <<config_file, settings_cache, module_cache, executions, outcome>>

\* The extension file is removed
DeleteExtension ==
    /\ extension_file.exists
    /\ extension_file' = [extension_file EXCEPT !.exists = FALSE]
    /\ UNCHANGED <<config_file, settings_cache, module_cache, executions, outcome>>

\* search_config_for_domain(url, settings_path, settings_cache) called with a cache
\* dict that is kept between the calls
Resolve(url) ==
    /\ \E r \in {search_config_for_domain(url, config_file, settings_cache)} :
          /\ settings_cache' = r.cache
          /\ outcome' = Outcome(1 - outcome.tick, "search_config_for_domain", url, "",
                                config_file, extension_file, r, NoUse(EmptyDict))
    /\ UNCHANGED <<config_file, extension_file, module_cache, executions>>

\* load_website_metadata(url) or create_snapshot(url, filepath): the module-level
\* _settings_cache they pass is None; their module cache is module_cache[name]
Call(name, url) ==
    /\ executions < MaxExecutions
    /\ \E r \in {search_config_for_domain(url, config_file, None)} :
          \E u \in {RunCaller(r, extension_file, module_cache[name], executions)} :
             /\ module_cache' = [module_cache EXCEPT ![name] = u.load.cache]
             /\ executions' = IF u.load.executed THEN executions + 1 ELSE executions
             /\ outcome' = Outcome(1 - outcome.tick, name, url, name, config_file,
                                   extension_file, r, u)
    /\ UNCHANGED <<config_file, settings_cache, extension_file>>

\* load_module(path, cache) called on the module cache of name
LoadModule(name, path) ==
    /\ executions < MaxExecutions
    /\ \E lm \in {load_module(path, FileAt(path, extension_file), module_cache[name],
                                executions)} :
          /\ module_cache' = [module_cache EXCEPT ![name] = lm.cache]
          /\ executions' = IF lm.executed THEN executions + 1 ELSE executions
          /\ outcome' = Outcome(1 - outcome.tick, "load_module", path, name, config_file,
                                FileAt(path, extension_file), NoSearchResult,
                                Ran("", None, lm))
    /\ UNCHANGED <<config_file, settings_cache, extension_file>>

----------------------------------------------------------------------------
(* Threads: load_settings, search_config_for_domain and load_module run     *)
(* statement by statement by several threads on one shared cache dict,      *)
(* while the files are written and removed between their statements         *)

Threads == {1, 2}

\* What a finished call gave: the exception raised or the value returned
ThreadResult(raised, value) == [raised |-> raised, value |-> value]

\* A thread: the statement it is at (pc), the function it runs and its url or
\* path, its locals mtime (0 for None), cached (cache_settings, or spec in
\* load_module) and value (the parse or the module it is about to store),
\* whether the file it had seen was gone when it read it, and what it returned
IdleThread ==
    [pc |-> "idle", call |-> "", arg |-> "", mtime |-> 0, cached |-> None, value |-> None,
     lost |-> FALSE, result |-> ThreadResult("", None)]

\* the thread i is at the statement pc of the function call
At(i, call, pc) == threads[i].call = call /\ threads[i].pc = pc

SettingsCalls == {"load_settings", "search_config_for_domain"}

\* A thread calls load_settings(path, cache) or search_config_for_domain(url, path, cache)
BeginSettings(i, call, url) ==
    /\ threads[i].pc = "idle"
    /\ threads' = [threads EXCEPT ![i] =
           [IdleThread EXCEPT !.call = call, !.arg = url,
                              !.pc = IF call = "load_settings" THEN "getmtime" ELSE "exists"]]
    /\ UNCHANGED configVars

\* search_config_for_domain, lines 196 and 201-203: os.path.exists(settings_path)
Exists(i) ==
    /\ At(i, "search_config_for_domain", "exists")
    /\ threads' = [threads EXCEPT ![i] =
           IF config_file.exists
           THEN [@ EXCEPT !.pc = "getmtime"]
           ELSE [@ EXCEPT !.pc = "done", !.result = ThreadResult("AttributeError", None)]]
    /\ UNCHANGED configVars

\* load_settings, lines 227-229: os.path.getmtime(path)
GetMtime(i) ==
    /\ threads[i].call \in SettingsCalls
    /\ threads[i].pc = "getmtime"
    /\ threads' = [threads EXCEPT ![i] =
           IF config_file.exists
           THEN [@ EXCEPT !.pc = "get_cache", !.mtime = config_file.mtime]
           ELSE [@ EXCEPT !.pc = "set_cache", !.mtime = 0, !.value = None, !.lost = TRUE]]
    /\ UNCHANGED configVars

\* load_settings, line 233: cache_settings = cache.get("cache")
GetCache(i) ==
    /\ threads[i].call \in SettingsCalls
    /\ threads[i].pc = "get_cache"
    /\ threads' = [threads EXCEPT ![i] = [@ EXCEPT !.pc = "get_mtime",
                                                    !.cached = settings_cache.cache]]
    /\ UNCHANGED configVars

\* load_settings, lines 234-235: cache_mtime = cache.get("mtime") and the test
GetCachedMtime(i) ==
    /\ threads[i].call \in SettingsCalls
    /\ threads[i].pc = "get_mtime"
    /\ threads' = [threads EXCEPT ![i] =
           [@ EXCEPT !.cached = None,
                     !.pc = IF threads[i].cached = None \/ settings_cache.mtime # threads[i].mtime
                            THEN "open" ELSE "return"]]
    /\ UNCHANGED configVars

\* load_settings, lines 237-238, 241 and 244: open(path), json.load(f) and
\* _process_path, or the exception they raise
Open(i) ==
    /\ threads[i].call \in SettingsCalls
    /\ threads[i].pc = "open"
    /\ threads' = [threads EXCEPT ![i] =
           IF ~config_file.exists
           THEN [@ EXCEPT !.pc = "set_cache", !.mtime = 0, !.value = None, !.lost = TRUE]
           ELSE IF ~config_file.valid
           THEN [@ EXCEPT !.pc = "set_cache", !.value = JSON_ERROR]
           ELSE [@ EXCEPT !.pc = "set_cache",
                          !.value = DomainMap(process_path(config_file.data))]]
    /\ UNCHANGED configVars

\* load_settings, lines 239, 242, 245 and 230: cache["cache"] = ...
SetCache(i) ==
    /\ threads[i].call \in SettingsCalls
    /\ threads[i].pc = "set_cache"
    /\ settings_cache' = [settings_cache EXCEPT !.cache = threads[i].value]
    /\ threads' = [threads EXCEPT ![i] = [@ EXCEPT !.pc = "set_mtime", !.value = None]]
    /\ UNCHANGED <<config_file, extension_file, module_cache, executions, outcome>>

\* load_settings, lines 240, 243, 246 and 231: cache["mtime"] = ...
SetMtime(i) ==
    /\ threads[i].call \in SettingsCalls
    /\ threads[i].pc = "set_mtime"
    /\ settings_cache' = [settings_cache EXCEPT !.mtime = threads[i].mtime]
    /\ threads' = [threads EXCEPT ![i] = [@ EXCEPT !.pc = "return", !.mtime = 0]]
    /\ UNCHANGED <<config_file, extension_file, module_cache, executions, outcome>>

\* search_config_for_domain, lines 197-200 and 205-222, on the value load_settings
\* returned: domain in domain_map raises TypeError when domain_map is None
SearchValue(url, domain_map) ==
    IF domain_map = None THEN ThreadResult("TypeError", None)
    ELSE IF domain_map = JSON_ERROR THEN ThreadResult("AttributeError", None)
    ELSE ThreadResult("", LookUp(domain_map.items, get_domain(url),
                                 [cache |-> Cache(domain_map, 0), parsed |-> FALSE]).config)

\* load_settings, lines 247 and 232: return cache.get("cache"), and what
\* search_config_for_domain makes of it
ReturnSettings(i) ==
    /\ threads[i].call \in SettingsCalls
    /\ threads[i].pc = "return"
    /\ threads' = [threads EXCEPT ![i] =
           [@ EXCEPT !.pc = "done",
                     !.result = IF threads[i].call = "load_settings"
                                THEN ThreadResult("", settings_cache.cache)
                                ELSE SearchValue(threads[i].arg, settings_cache.cache)]]
    /\ UNCHANGED configVars

\* The caller has taken the result of the call
Join(i) ==
    /\ threads[i].pc = "done"
    /\ threads' = [threads EXCEPT ![i] = IdleThread]
    /\ UNCHANGED configVars

\* The extension file with its code: code names the text of the file
CodeFile(exists, mtime, code) == [exists |-> exists, mtime |-> mtime, code |-> code]

\* the module object made by the k-th execution, of the file holding code
ModuleOf(k, code) == [t |-> "module", s |-> "", n |-> k, code |-> code]

\* the cache dict the threads share: _loaders_module_cache
SharedModules == module_cache["load_website_metadata"]

\* The extension file is rewritten with code: its modification time changes
WriteCode(code) ==
    /\ extension_file.mtime < MaxMtime
    /\ extension_file' = CodeFile(TRUE, extension_file.mtime + 1, code)
    /\ UNCHANGED <<config_file, settings_cache, module_cache, executions, outcome, threads>>

\* The extension file is removed
RemoveCode ==
    /\ extension_file.exists
    /\ extension_file' = [extension_file EXCEPT !.exists = FALSE]
    /\ UNCHANGED <<config_file, settings_cache, module_cache, executions, outcome, threads>>

\* A thread calls load_module(path, _loaders_module_cache)
BeginModule(i) ==
    /\ threads[i].pc = "idle"
    /\ threads' = [threads EXCEPT ![i] =
           [IdleThread EXCEPT !.call = "load_module", !.arg = ExtPath, !.pc = "getmtime"]]
    /\ UNCHANGED configVars

\* load_module, lines 267-270: os.path.getmtime(path), or return None
ModuleGetMtime(i) ==
    /\ At(i, "load_module", "getmtime")
    /\ threads' = [threads EXCEPT ![i] =
           IF extension_file.exists
           THEN [@ EXCEPT !.pc = "get", !.mtime = extension_file.mtime]
           ELSE [@ EXCEPT !.pc = "done", !.lost = TRUE, !.result = ThreadResult("", None)]]
    /\ UNCHANGED configVars

\* load_module, lines 271-272: spec = cache.get(path) and the test
ModuleGet(i) ==
    /\ At(i, "load_module", "get")
    /\ threads' = [threads EXCEPT ![i] =
           [@ EXCEPT !.pc = IF \/ threads[i].arg \notin DOMAIN SharedModules
                               \/ SharedModules[threads[i].arg][2] # threads[i].mtime
                            THEN "exec" ELSE "return"]]
    /\ UNCHANGED configVars

\* load_module, lines 273-275: the file is read and executed as it is now;
\* exec_module raises FileNotFoundError when it is gone
Exec(i) ==
    /\ At(i, "load_module", "exec")
    /\ executions < MaxExecutions
    /\ IF extension_file.exists
       THEN /\ threads' = [threads EXCEPT ![i] =
                   [@ EXCEPT !.pc = "store",
                             !.value = ModuleOf(executions + 1, extension_file.code)]]
            /\ executions' = executions + 1
       ELSE /\ threads' = [threads EXCEPT ![i] =
                   [@ EXCEPT !.pc = "done", !.mtime = 0, !.lost = TRUE,
                             !.result = ThreadResult("FileNotFoundError", None)]]
            /\ UNCHANGED executions
    /\ UNCHANGED <<config_file, settings_cache, extension_file, module_cache, outcome>>

\* the mtime of the file when the entry is stored
StoredMtimeNow(mtime, file) == file.mtime

\* load_module, line 276: the mtime stored in the entry is the local mtime of line 268
StoredMtime(mtime, file) == mtime

\* load_module, line 276: cache[path] = (module, mtime), one assignment
Store(i) ==
    /\ At(i, "load_module", "store")
    /\ module_cache' = [module_cache EXCEPT !["load_website_metadata"] =
           [p \in DOMAIN @ \cup {threads[i].arg} |->
               IF p = threads[i].arg
               THEN <<threads[i].value, StoredMtime(threads[i].mtime, extension_file)>>
               ELSE @[p]]]
    /\ threads' = [threads EXCEPT ![i] = [@ EXCEPT !.pc = "return", !.value = None, !.mtime = 0]]
    /\ UNCHANGED <<config_file, settings_cache, extension_file, executions, outcome>>

\* load_module, line 277: return cache[path][0]
ReturnModule(i) ==
    /\ At(i, "load_module", "return")
    /\ threads' = [threads EXCEPT ![i] =
           [@ EXCEPT !.pc = "done", !.mtime = 0,
                     !.result = ThreadResult("", SharedModules[threads[i].arg][1])]]
    /\ UNCHANGED configVars

ThreadInit == threads = [i \in Threads |-> IdleThread]

\* no call is in progress
Quiescent == \A i \in Threads : threads[i].pc \in {"idle", "done"}

----------------------------------------------------------------------------
(* The page fetch: load_page, load_full_page, build_request_headers,        *)
(* build_request_cookies and _load_website_metadata of                      *)
(* services/website_loader.py.  Bytes and text are sequences of characters; *)
(* a config is None or a dict whose "headers" is a dict of strings.         *)

\* "</head>".encode("utf-8")
end_of_head == <<"<", "/", "h", "e", "a", "d", ">">>

\* the title element, written <t> in the pages of the model
title_tag == <<"<", "t", ">">>

\* bytes.find(m) + 1: where m first occurs in s, 0 when it does not
Find(s, m) ==
    IF \E i \in 1..Len(s) : i + Len(m) - 1 <= Len(s) /\ SubSeq(s, i, i + Len(m) - 1) = m
    THEN CHOOSE i \in 1..Len(s) :
             /\ i + Len(m) - 1 <= Len(s)
             /\ SubSeq(s, i, i + Len(m) - 1) = m
             /\ \A j \in 1..(i - 1) : SubSeq(s, j, j + Len(m) - 1) # m
    ELSE 0

\* m in s
Contains(s, m) == Find(s, m) # 0

\* s.split(m)[0]
SplitFirst(s, m) == IF Contains(s, m) THEN SubSeq(s, 1, Find(s, m) - 1) ELSE s

\* config.get(key, default) if config else default
GetOr(config, key, default) ==
    IF config # None /\ DOMAIN config # {} /\ key \in DOMAIN config THEN config[key] ELSE default

\* config.get("headers", {}) if config else {}
ConfigHeaders(config) == GetOr(config, "headers", EmptyDict)

\* config.get("headers", {}).get("Cookie") if config else None; "" stands for a
\* value that is None or empty
CookieString(config) ==
    IF "Cookie" \in DOMAIN ConfigHeaders(config) THEN ConfigHeaders(config)["Cookie"] ELSE ""

\* the headers build_request_headers starts from
DefaultHeaders ==
    [k \in {"Accept", "Accept-Encoding", "Dnt", "Upgrade-Insecure-Requests", "User-Agent"} |->
        CASE k = "Accept" -> "text/html,application/xhtml+xml,application/xml"
          [] k = "Accept-Encoding" -> "gzip, deflate"
          [] k = "User-Agent" -> "LD_DEFAULT_USER_AGENT"
          [] OTHER -> "1"]

\* build_request_headers(config)
build_request_headers(config) ==
    IF DOMAIN ConfigHeaders(config) # {}
    THEN IF CookieString(config) # ""
         THEN [k \in DOMAIN Merge(DefaultHeaders, ConfigHeaders(config)) \ {"Cookie"} |->
                  Merge(DefaultHeaders, ConfigHeaders(config))[k]]
         ELSE Merge(DefaultHeaders, ConfigHeaders(config))
    ELSE DefaultHeaders

\* SimpleCookie().load(s) and the dict of its values, for the strings of the model
SimpleCookie(s) ==
    CASE s = "a=1" -> [k \in {"a"} |-> "1"]
      [] s = "a=1; b=2" -> [k \in {"a", "b"} |-> IF k = "a" THEN "1" ELSE "2"]
      [] OTHER -> EmptyDict

\* build_request_cookies(config)
build_request_cookies(config) ==
    IF CookieString(config) # ""
    THEN SimpleCookie(CookieString(config))
    ELSE EmptyDict

\* timeout of load_page when the config names none
LoadPageTimeout == 10

\* timeout of load_full_page when the config names none
LoadFullPageTimeout == 30

DefaultChunkSize == 50 * 1024

DefaultContentLimit == 5000 * 1024

\* The arguments of requests.get
Request(call, config, timeout, stream) ==
    [call |-> call, headers |-> build_request_headers(config),
     cookies |-> build_request_cookies(config),
     timeout |-> GetOr(config, "timeout", timeout), stream |-> stream]

NoRequestSent == [call |-> "", headers |-> EmptyDict, cookies |-> EmptyDict, timeout |-> 0,
                  stream |-> FALSE]

\* What load_page or load_full_page gave: the exception raised or the text returned
PageResult(raised, text) == [raised |-> raised, text |-> text]

\* the bytes object of the characters chars
Bytes(chars) == [t |-> "bytes", s |-> "", n |-> Len(chars), chars |-> chars]

\* the str of the characters chars
Text(chars) == [t |-> "str", s |-> "", n |-> Len(chars), chars |-> chars]

\* WebsiteMetadata: the title found in the page text (description and preview
\* image are found the same way and left out)
WebsiteMetadata(title) == [title |-> title]

\* _load_website_metadata, lines 83-130: BeautifulSoup(page_text) and the title
Extract(text) == WebsiteMetadata(IF Contains(text.chars, title_tag) THEN Str("t") ELSE None)

\* The fetch in progress: the statement it is at (pc), the body the server
\* sends and how much of it has been delivered (pos), CHUNK_SIZE and
\* MAX_CONTENT_LIMIT, the locals size, content (None before the first chunk) and
\* iteration, the length of the last chunk, whether the response is open, how
\* the loop ended (stop), and what load_page and _load_website_metadata gave
IdleFetch ==
    [pc |-> "idle", call |-> "", body |-> << >>, pos |-> 0, chunk_size |-> 0,
     max_content_limit |-> 0, size |-> 0, content |-> None, iteration |-> 0, last |-> 0,
     open |-> FALSE, stop |-> "", result |-> PageResult("", None),
     metadata |-> WebsiteMetadata(None)]

FetchInit ==
    /\ request = NoRequestSent
    /\ fetch = IdleFetch

\* load_page, lines 139-152: the request is built and sent; requests.get gives
\* the open response (ok) or raises, and then _load_website_metadata's finally
\* returns the metadata it has
LoadPage(config, body, ok) ==
    /\ fetch.pc = "idle"
    /\ request' = Request("load_page", config, LoadPageTimeout, TRUE)
    /\ fetch' = IF ok
                THEN [IdleFetch EXCEPT !.pc = "reading", !.call = "load_page", !.body = body,
                                       !.chunk_size = GetOr(config, "chunk_size", DefaultChunkSize),
                                       !.max_content_limit =
                                           GetOr(config, "max_content_limit", DefaultContentLimit),
                                       !.open = TRUE]
                ELSE [IdleFetch EXCEPT !.pc = "finished", !.call = "load_page",
                                       !.result = PageResult("RequestException", None)]

\* the test of the marker made on the chunk alone
ChunkHasMarker(content, chunk) == Contains(chunk.chars, end_of_head)

\* load_page, line 165: end_of_head in content
HasMarker(content, chunk) == Contains(content.chars, end_of_head)

\* the cap tested on the length of the chunk alone
ChunkExceedsLimit(size, chunk, limit) == Len(chunk.chars) > limit

\* load_page, line 170: size > MAX_CONTENT_LIMIT
ExceedsLimit(size, chunk, limit) == size > limit

\* a response that stays open when the read raised
OpenAfterError(how) == how = "error"

\* load_page, line 152: the with statement closes the response however its block
\* is left
OpenAfterExit(how) == FALSE

\* load_page, lines 156-159: content = chunk, or content + chunk
Buffered(content, chunk) ==
    IF content = None THEN chunk ELSE Bytes(content.chars \o chunk.chars)

\* load_page, line 167: content.split(end_of_head)[0] + end_of_head
Truncated(content) == Bytes(SplitFirst(content.chars, end_of_head) \o end_of_head)

\* load_page, lines 153-172: one run of the loop body on a chunk of n bytes
ReadChunk(n) ==
    /\ fetch.pc = "reading"
    /\ n >= 1
    /\ n <= fetch.chunk_size
    /\ fetch.pos + n <= Len(fetch.body)
    /\ \E chunk \in {Bytes(SubSeq(fetch.body, fetch.pos + 1, fetch.pos + n))} :
       \E content \in {Buffered(fetch.content, chunk)} :
          fetch' = IF HasMarker(content, chunk)
                   THEN [fetch EXCEPT !.pos = @ + n, !.size = @ + n, !.iteration = @ + 1,
                                      !.last = n,
                                      !.content = Truncated(content),
                                      !.stop = "marker", !.pc = "decode",
                                      !.open = OpenAfterExit("marker")]
                   ELSE IF ExceedsLimit(fetch.size + n, chunk, fetch.max_content_limit)
                   THEN [fetch EXCEPT !.pos = @ + n, !.size = @ + n, !.iteration = @ + 1,
                                      !.last = n, !.content = content,
                                      !.stop = "limit", !.pc = "decode",
                                      !.open = OpenAfterExit("limit")]
                   ELSE [fetch EXCEPT !.pos = @ + n, !.size = @ + n, !.iteration = @ + 1,
                                      !.last = n, !.content = content]
    /\ UNCHANGED request

\* load_page, line 153: iter_content is exhausted
EndOfStream ==
    /\ fetch.pc = "reading"
    /\ fetch.pos = Len(fetch.body)
    /\ fetch' = [fetch EXCEPT !.stop = "exhausted", !.pc = "decode",
                              !.open = OpenAfterExit("exhausted")]
    /\ UNCHANGED request

\* load_page, line 153: reading the next chunk raises; the exception leaves
\* load_page, and the finally of _load_website_metadata (lines 132-135) returns
\* the metadata it has
ReadFails ==
    /\ fetch.pc = "reading"
    /\ fetch' = [fetch EXCEPT !.stop = "error", !.pc = "finished",
                              !.open = OpenAfterExit("error"),
                              !.result = PageResult("RequestException", None),
                              !.metadata = WebsiteMetadata(None)]
    /\ UNCHANGED request

\* load_page, lines 180-181: from_bytes(content or "") and str(results.best());
\* from_bytes of the str "" (no chunk was read) raises TypeError or gives no match
Decode(content) ==
    IF content = None
    THEN {PageResult("TypeError", None), PageResult("", Text(<<"N", "o", "n", "e">>))}
    ELSE {PageResult("", Text(content.chars))}

\* load_page, lines 180-181, and _load_website_metadata, lines 78-135
ReturnPage ==
    /\ fetch.pc = "decode"
    /\ \E r \in Decode(fetch.content) :
          fetch' = [fetch EXCEPT !.pc = "finished", !.result = r,
                                 !.metadata = IF r.raised = "" THEN Extract(r.text)
                                              ELSE WebsiteMetadata(None)]
    /\ UNCHANGED request

\* load_full_page(url, config): the whole body as text, or RequestException
LoadFullPage(config, body, ok) ==
    /\ fetch.pc = "idle"
    /\ request' = Request("load_full_page", config, LoadFullPageTimeout, FALSE)
    /\ fetch' = [IdleFetch EXCEPT !.pc = "finished", !.call = "load_full_page",
                                  !.body = body, !.pos = IF ok THEN Len(body) ELSE 0,
                                  !.result = IF ok THEN PageResult("", Text(body))
                                             ELSE PageResult("RequestException", None)]

\* The caller has taken the result
FetchDone ==
    /\ fetch.pc = "finished"
    /\ request' = NoRequestSent
    /\ fetch' = IdleFetch

----------------------------------------------------------------------------
(* The requests *)
(* Requests are served one at a time: a view runs from the state in which   *)
(* no search is held (query = NoRequest) or, for the page a redirect leads *)
(* to, from the state holding that redirect.                               *)

SearchInit ==
    /\ bundles = [pk \in BundleIds |-> NoBundle]
    /\ search_preferences = EmptyDict
    /\ query = NoRequest
    /\ search = NoSearch
    /\ location = NoRequest

\* the state in which no date has been resolved
DateInit ==
    /\ date_today = Today
    /\ token = None
    /\ derived = Range(None, None)

Init == SearchInit /\ DateInit /\ ConfigInit /\ ThreadInit /\ FetchInit

Idle == query = NoRequest

\* The bundle editor: user creates the bundle pk, or edits it as its owner
SaveBundle(user, pk, sp) ==
    /\ Idle
    /\ ~bundles[pk].exists \/ bundles[pk].owner = user
    /\ bundles' = [bundles EXCEPT ![pk] = [exists |-> TRUE, owner |-> user, search_params |-> sp]]
    /\ UNCHANGED <<search_preferences, query, search, location>>

\* The owner deletes the bundle pk
DeleteBundle(user, pk) ==
    /\ Idle
    /\ bundles[pk].exists
    /\ bundles[pk].owner = user
    /\ bundles' = [bundles EXCEPT ![pk] = NoBundle]
    /\ UNCHANGED <<search_preferences, query, search, location>>

\* views.bookmarks.index for the GET parameters get: a link the user opens, or the
\* redirect of search_action, which the browser follows
Index(get) ==
    /\ IF Idle THEN get \in QueryDicts ELSE get = location
    /\ \E s \in {from_request(Requester, get, search_preferences, bundles)} :
          /\ query' = get
          /\ search' = s
          /\ location' = NoRequest
          /\ bundles' = QueryParamsHeap(s, FromRequestHeap(Requester, get, bundles))
          /\ UNCHANGED search_preferences

\* search_action, lines 217-230: the preferences after the "save" branch
SavedPreferences(post, save) ==
    IF save
    THEN preferences_dict(from_request(Requester, post, None, bundles))
    ELSE search_preferences

\* views.bookmarks.search_action for the POST parameters post
search_action(post, save) ==
    /\ Idle
    /\ \E prefs \in {SavedPreferences(post, save)},
          tbl1 \in {IF save THEN FromRequestHeap(Requester, post, bundles) ELSE bundles} :
          \E s \in {from_request(Requester, post, prefs, tbl1)},
             tbl2 \in {FromRequestHeap(Requester, post, tbl1)} :
             /\ search_preferences' = prefs
             /\ query' = post
             /\ search' = s
             /\ location' = urlencode(query_params(s, tbl2, Today))
             /\ bundles' = QueryParamsHeap(s, tbl2)

\* The response is delivered and the search of the request is dropped
Finish ==
    /\ ~Idle
    /\ query' = NoRequest
    /\ search' = NoSearch
    /\ location' = NoRequest
    /\ UNCHANGED <<bundles, search_preferences>>

Next ==
    \/ \E user \in Users, pk \in BundleIds, sp \in BundleDicts :
           SaveBundle(user, pk, sp) /\ UNCHANGED <<dateVars, configVars, threadVars, fetchVars>>
    \/ \E user \in Users, pk \in BundleIds : DeleteBundle(user, pk) /\ UNCHANGED <<dateVars, configVars, threadVars, fetchVars>>
    \/ \E get \in QueryDicts \cup {location} : Index(get) /\ UNCHANGED <<dateVars, configVars, threadVars, fetchVars>>
    \/ \E post \in QueryDicts, save \in BOOLEAN :
           /\ save => post \in SaveDicts
           /\ search_action(post, save)
           /\ UNCHANGED <<dateVars, configVars, threadVars, fetchVars>>
    \/ Finish /\ UNCHANGED <<dateVars, configVars, threadVars, fetchVars>>

SearchSpec == Init /\ [][Next]_vars

----------------------------------------------------------------------------
(* The relative date resolver on its own: any day of 2024, any token *)

\* the tokens of the closed vocabulary the model resolves
VocabularyTokens ==
    {"today", "yesterday", "this_week", "this_month", "this_year",
     "last_0_days", "last_1_day", "last_7_days", "last_10_days", "last_1_week",
     "last_2_weeks", "last_1_month", "last_3_months", "last_1_year", "last_2025_years"}

\* strings outside the vocabulary
OtherTokens ==
    {"", "junk", "last_7_daysX", "xlast_7_days", "last__days", "last_7_hours", "TODAY"}

Tokens == VocabularyTokens \cup OtherTokens

DaysOf2024 == Ordinal(1, 1)..Ordinal(12, 31)

DateSpecInit ==
    /\ SearchInit
    /\ ConfigInit
    /\ ThreadInit
    /\ FetchInit
    /\ date_today \in DaysOf2024
    /\ token = None
    /\ derived = Range(None, None)

\* BookmarkSearch.parse_relative_date_string(s) called on the day date_today
ParseToken(s) ==
    /\ token' = Str(s)
    /\ derived' = parse_relative_date_string(s, date_today)
    /\ UNCHANGED date_today

\* the day ends: date.today() is the next day for the calls that follow
Midnight ==
    /\ date_today < Ordinal(12, 31)
    /\ date_today' = date_today + 1
    /\ token' = None
    /\ derived' = Range(None, None)

DateNext ==
    \/ \E s \in Tokens : ParseToken(s) /\ UNCHANGED <<searchVars, configVars, threadVars, fetchVars>>
    \/ Midnight /\ UNCHANGED <<searchVars, configVars, threadVars, fetchVars>>

DateSpec == DateSpecInit /\ [][DateNext]_vars

----------------------------------------------------------------------------
(* The claims *)

HasSearch == search # NoSearch

Attached == HasSearch /\ Truthy(search.attrs["bundle"])

\* the fields a request sets, all but the bundle reference
Fields == ParamSet \ {"bundle"}

\* the request carries a non-empty explicit value for p
Explicit(p) == Truthy(Get(query, p))

\* the stored search_params of the bundle attached to the search
AttachedParams == bundles[search.attrs["bundle"].n].search_params

Relative == HasSearch /\ search.attrs["date_filter_type"] = Str("relative")

\* C1: a non-empty explicit value of the request is the value the search built by
\* from_request holds for the field, whatever the bundle and the preferences store;
\* the constructor called with the explicit values, the bundle and the preferences
\* holds it too.
C1_ExplicitWins ==
    HasSearch =>
        \A p \in Fields :
            Explicit(p) =>
                /\ search.attrs[p] = query[p]
                /\ BookmarkSearch(InitialValues(query), search.attrs["bundle"],
                                  search_preferences, bundles).attrs[p] = query[p]

C1_Witness ==
    /\ Attached
    /\ Get(AttachedParams, "sort") = Str("title_asc")
    /\ Get(search_preferences, "sort") = Str("bogus")
    /\ Get(query, "sort") = Str("random")
    /\ search.attrs["sort"] = Str("random")

\* C2: a field without a non-empty explicit value resolves to the bundle's stored
\* value if a bundle is attached and carries the field, else to the stored preference
\* if there is one, else to the hard default.  (A date the bundle stores is compared
\* by its text.)
C2_Precedence ==
    HasSearch =>
        \A p \in Fields :
            ~Explicit(p) =>
                IF Attached /\ p \in DOMAIN AttachedParams
                THEN PyStr(search.attrs[p]) = PyStr(AttachedParams[p])
                ELSE IF p \in DOMAIN search_preferences
                THEN search.attrs[p] = search_preferences[p]
                ELSE search.attrs[p] = defaults[p]

\* C3 as claimed: is_modified compares with the hard default, whatever the preferences
C3_ModifiedAgainstHardDefault ==
    HasSearch =>
        \A p \in ParamSet :
            ~(Relative /\ p \in DateFields) =>
                (is_modified(search, p) <=> search.attrs[p] # defaults[p])

\* C3 as amended: is_modified compares the stored value with the search's own
\* defaults, the hard defaults overlaid with the preferences the constructor was
\* given: the stored preferences without a bundle, none with a bundle attached.
C3_ModifiedAgainstOwnDefaults ==
    HasSearch =>
        \A p \in ParamSet :
            ~(Relative /\ p \in DateFields) =>
                (is_modified(search, p) <=>
                    search.attrs[p] #
                        Merge(defaults,
                              IF Attached THEN EmptyDict ELSE search_preferences)[p])

C3_Witness ==
    /\ HasSearch
    /\ ~Attached
    /\ Get(search_preferences, "sort") = Str("random")
    /\ search.attrs["sort"] = Str("random")
    /\ ~is_modified(search, "sort")
    /\ is_modified(search, "tagged")

\* the effective value of every field, as text, is the same in s1 and s2
SameEffective(s1, s2) ==
    \A p \in ParamSet : PyStr(Effective(s1, p, Today)) = PyStr(Effective(s2, p, Today))

\* C4: the page the redirect of search_action leads to, built by from_request from
\* query_params of the search with the same bundle and preferences, holds the same
\* effective value of every field.
C4_RoundTrip ==
    [][(location # NoRequest /\ search' # NoSearch) => SameEffective(search, search')]_vars

\* C5: with a bundle attached query_params holds the bundle id, and any other field
\* only if its value differs from that of the bundle's search_object; a search that
\* differs from it by the tagged filter alone serializes to {bundle, tagged}.
C5_MinimalDiff ==
    Attached =>
        LET qp == query_params(search, bundles, Today)
            b == search_object(bundles, search.attrs["bundle"].n)
            differs == {p \in Fields : ParamValue(search, p, Today) # ParamValue(b, p, Today)}
        IN  /\ "bundle" \in DOMAIN qp
            /\ qp["bundle"] = IntObj(search.attrs["bundle"].n)
            /\ DOMAIN qp \ {"bundle"} \subseteq differs
            /\ differs = {"tagged"} =>
                   qp = [p \in {"bundle", "tagged"} |->
                            IF p = "bundle" THEN IntObj(search.attrs["bundle"].n)
                            ELSE search.attrs["tagged"]]

C5_Witness ==
    /\ Attached
    /\ AttachedParams # EmptyDict
    /\ search.attrs["tagged"] = Str("yes")
    /\ DOMAIN query_params(search, bundles, Today) = {"bundle", "tagged"}

\* the range parse_relative_date_string derives from the token of the search
DerivedRange ==
    IF search.attrs["date_filter_relative_string"].t = "str"
    THEN parse_relative_date_string(search.attrs["date_filter_relative_string"].s, Today)
    ELSE Range(None, None)

\* C6: in relative mode date_filter_start and date_filter_end read as the range
\* derived from the token, never as a stored value, for every token.
C6_DerivedOnRead ==
    Relative =>
        /\ Effective(search, "date_filter_start", Today) = DerivedRange.start
        /\ Effective(search, "date_filter_end", Today) = DerivedRange.end

\* C7: in relative mode is_modified is false for date_filter_start and
\* date_filter_end and query_params holds neither, with and without a bundle.
C7_RelativeNeverSerialized ==
    Relative =>
        \A p \in DateFields :
            /\ ~is_modified(search, p)
            /\ p \notin DOMAIN query_params(search, bundles, Today)

C7_Witness ==
    /\ Relative
    /\ Attached
    /\ Get(AttachedParams, "date_filter_start") = Str("2024-06-01")
    /\ search.attrs["date_filter_end"] = Str("2024-06-30")

\* C8: every enum field of a search holds a value of its closed vocabulary.
C8_ClosedVocabulary ==
    HasSearch =>
        \A p \in EnumFields :
            search.attrs[p].t = "str" /\ search.attrs[p].s \in Vocabulary(p)

\* C9: a request that builds a search from a bundle and serializes it leaves the
\* stored search_params of every bundle as they were.
C9_BundleUnchanged ==
    [][query' # NoRequest => bundles' = bundles]_vars

C9_Witness ==
    /\ Attached
    /\ Get(AttachedParams, "date_filter_start") = Str("2024-06-01")
    /\ search.attrs["date_filter_start"] = DateObj(Ordinal(6, 1))
    /\ Get(AttachedParams, "date_filter_end") = Str("2024-06-30")
    /\ search.attrs["date_filter_end"] = DateObj(Ordinal(6, 30))

\* C10: from_request attaches the requested bundle only if it exists and the
\* requesting user owns it; otherwise the search has no bundle and every field is the
\* explicit value, the stored preference or the hard default.
C10_OwnBundleOnly ==
    (HasSearch /\ Explicit("bundle")) =>
        /\ Attached <=>
               \E pk \in BundleIds :
                   /\ ToString(pk) = query["bundle"].s
                   /\ bundles[pk].exists
                   /\ bundles[pk].owner = Requester
        /\ ~Attached =>
               /\ search.attrs["bundle"] = None
               /\ \A p \in Fields :
                      search.attrs[p] =
                          IF Explicit(p) THEN query[p]
                          ELSE Merge(defaults, search_preferences)[p]

C10_Witness ==
    /\ HasSearch
    /\ Explicit("bundle")
    /\ bundles[1].exists
    /\ bundles[1].owner = "bob"
    /\ bundles[1].search_params # EmptyDict
    /\ ~Attached

----------------------------------------------------------------------------
(* Claims about the relative date resolver (DateSpec) *)

Parsed == token # None

\* C11: for every day and every token of the closed vocabulary,
\* parse_relative_date_string returns a pair of dates with start <= end.
C11_StartNotAfterEnd ==
    (Parsed /\ token.s \in VocabularyTokens) =>
        /\ derived.raised = ""
        /\ derived.start.t = "date"
        /\ derived.end.t = "date"
        /\ derived.start.n <= derived.end.n

\* N and the days k of the unit of the last_N_unit tokens, read off their text
Window(s) ==
    CASE s = "last_0_days" -> <<0, 1>>
      [] s = "last_1_day" -> <<1, 1>>
      [] s = "last_7_days" -> <<7, 1>>
      [] s = "last_10_days" -> <<10, 1>>
      [] s = "last_1_week" -> <<1, 7>>
      [] s = "last_2_weeks" -> <<2, 7>>
      [] s = "last_1_month" -> <<1, 30>>
      [] s = "last_3_months" -> <<3, 30>>
      [] s = "last_1_year" -> <<1, 365>>
      [] s = "last_2025_years" -> <<2025, 365>>
      [] OTHER -> <<0, 0>>

LastTokens == {s \in VocabularyTokens : Window(s)[2] > 0}

\* C12: for every N and every day, last_N_day(s)/week(s)/month(s)/year(s) returns
\* end = today and start = today - (k*N - 1) days with k = 1, 7, 30, 365.
C12_FixedWindows ==
    (Parsed /\ token.s \in LastTokens) =>
        derived = Range(DateObj(date_today - (Window(token.s)[2] * Window(token.s)[1] - 1)),
                        DateObj(date_today))

\* C13: every string outside the closed vocabulary, the empty string and a token
\* followed by extra characters included, gives (None, None) and no error.
C13_UnrecognizedGivesNone ==
    (Parsed /\ token.s \in OtherTokens) => derived = Range(None, None)

----------------------------------------------------------------------------
(* The settings file through its states: missing, corrupt, valid *)

\* the settings a valid file holds
ConfigContents ==
    {<< <<"a.example.com", ConfigEntry(1, "")>> >>, << <<"*.example.com", ConfigEntry(2, "")>> >>}

ConfigNext ==
    \/ \E valid \in BOOLEAN, data \in ConfigContents :
           WriteConfig(valid, data) /\ UNCHANGED <<searchVars, dateVars, threadVars, fetchVars>>
    \/ DeleteConfig /\ UNCHANGED <<searchVars, dateVars, threadVars, fetchVars>>
    \/ \E url \in Urls : Resolve(url) /\ UNCHANGED <<searchVars, dateVars, threadVars, fetchVars>>
    \/ \E name \in Callers, url \in Urls : Call(name, url) /\ UNCHANGED <<searchVars, dateVars, threadVars, fetchVars>>

ConfigSpec == Init /\ [][ConfigNext]_vars

----------------------------------------------------------------------------
(* The lookup in any settings map *)

ConfigKeys == {"a.example.com", "*.example.com", "*.com", "shared"}

ConfigValues ==
    {ConfigEntry(1, ""), ConfigEntry(2, "./ext.py"), EmptyEntry,
     Str("shared"), Str("a.example.com"), Str("*.com"), Str("missing")}

\* the settings maps of at most MaxConfigKeys keys
DomainMaps ==
    UNION {{[i \in 1..n |-> <<ks[i], vs[i]>>] :
                ks \in {f \in [1..n -> ConfigKeys] : \A i, j \in 1..n : f[i] = f[j] => i = j},
                vs \in [1..n -> ConfigValues]} : n \in 0..MaxConfigKeys}

ResolveInit ==
    /\ SearchInit
    /\ DateInit
    /\ ThreadInit
    /\ FetchInit
    /\ config_file \in {ConfigFile(TRUE, 1, m) : m \in DomainMaps}
    /\ settings_cache = Cache(None, 0)
    /\ extension_file = NoFile
    /\ module_cache = [name \in Callers |-> EmptyDict]
    /\ executions = 0
    /\ outcome = NoOutcome

ResolveNext ==
    \/ \E url \in Urls : Resolve(url) /\ UNCHANGED <<searchVars, dateVars, threadVars, fetchVars>>
    \/ \E name \in Callers, url \in Urls : Call(name, url) /\ UNCHANGED <<searchVars, dateVars, threadVars, fetchVars>>

ResolveSpec == ResolveInit /\ [][ResolveNext]_vars

----------------------------------------------------------------------------
(* The extension file through its states, under settings that name it *)

LoaderContent == << <<"a.example.com", ConfigEntry(1, "./ext.py")>> >>

ModulePaths == {ExtPath, "/etc/linkding/gone.py"}

LoaderInit ==
    /\ SearchInit
    /\ DateInit
    /\ ThreadInit
    /\ FetchInit
    /\ config_file = ConfigFile(TRUE, 1, LoaderContent)
    /\ settings_cache = Cache(None, 0)
    /\ extension_file = NoFile
    /\ module_cache = [name \in Callers |-> EmptyDict]
    /\ executions = 0
    /\ outcome = NoOutcome

LoaderNext ==
    \/ WriteExtension /\ UNCHANGED <<searchVars, dateVars, threadVars, fetchVars>>
    \/ DeleteExtension /\ UNCHANGED <<searchVars, dateVars, threadVars, fetchVars>>
    \/ \E name \in Callers, path \in ModulePaths :
           LoadModule(name, path) /\ UNCHANGED <<searchVars, dateVars, threadVars, fetchVars>>
    \/ \E name \in Callers, url \in Urls : Call(name, url) /\ UNCHANGED <<searchVars, dateVars, threadVars, fetchVars>>

LoaderSpec == LoaderInit /\ [][LoaderNext]_vars

----------------------------------------------------------------------------
(* Threads on one shared settings cache while the settings file changes *)

SettingsRaceNext ==
    \/ \E valid \in BOOLEAN, data \in ConfigContents :
           WriteConfig(valid, data) /\ UNCHANGED <<searchVars, dateVars, threadVars, fetchVars>>
    \/ DeleteConfig /\ UNCHANGED <<searchVars, dateVars, threadVars, fetchVars>>
    \/ \E i \in Threads :
           BeginSettings(i, "load_settings", "") /\ UNCHANGED <<searchVars, dateVars, fetchVars>>
    \/ \E i \in Threads, url \in Urls :
           BeginSettings(i, "search_config_for_domain", url) /\ UNCHANGED <<searchVars, dateVars, fetchVars>>
    \/ \E i \in Threads : Exists(i) /\ UNCHANGED <<searchVars, dateVars, fetchVars>>
    \/ \E i \in Threads : GetMtime(i) /\ UNCHANGED <<searchVars, dateVars, fetchVars>>
    \/ \E i \in Threads : GetCache(i) /\ UNCHANGED <<searchVars, dateVars, fetchVars>>
    \/ \E i \in Threads : GetCachedMtime(i) /\ UNCHANGED <<searchVars, dateVars, fetchVars>>
    \/ \E i \in Threads : Open(i) /\ UNCHANGED <<searchVars, dateVars, fetchVars>>
    \/ \E i \in Threads : SetCache(i) /\ UNCHANGED <<searchVars, dateVars, fetchVars>>
    \/ \E i \in Threads : SetMtime(i) /\ UNCHANGED <<searchVars, dateVars, fetchVars>>
    \/ \E i \in Threads : ReturnSettings(i) /\ UNCHANGED <<searchVars, dateVars, fetchVars>>
    \/ \E i \in Threads : Join(i) /\ UNCHANGED <<searchVars, dateVars, fetchVars>>

SettingsRaceSpec == Init /\ [][SettingsRaceNext]_vars

----------------------------------------------------------------------------
(* Threads on one shared module cache while the extension file changes *)

\* the texts the extension file may hold
Codes == {"v1", "v2"}

ModuleRaceInit ==
    /\ SearchInit
    /\ DateInit
    /\ ThreadInit
    /\ FetchInit
    /\ config_file = NoConfigFile
    /\ settings_cache = Cache(None, 0)
    /\ extension_file = CodeFile(FALSE, 0, "")
    /\ module_cache = [name \in Callers |-> EmptyDict]
    /\ executions = 0
    /\ outcome = NoOutcome

ModuleRaceNext ==
    \/ \E code \in Codes : WriteCode(code) /\ UNCHANGED <<searchVars, dateVars, fetchVars>>
    \/ RemoveCode /\ UNCHANGED <<searchVars, dateVars, fetchVars>>
    \/ \E i \in Threads : BeginModule(i) /\ UNCHANGED <<searchVars, dateVars, fetchVars>>
    \/ \E i \in Threads : ModuleGetMtime(i) /\ UNCHANGED <<searchVars, dateVars, fetchVars>>
    \/ \E i \in Threads : ModuleGet(i) /\ UNCHANGED <<searchVars, dateVars, fetchVars>>
    \/ \E i \in Threads : Exec(i) /\ UNCHANGED <<searchVars, dateVars, fetchVars>>
    \/ \E i \in Threads : Store(i) /\ UNCHANGED <<searchVars, dateVars, fetchVars>>
    \/ \E i \in Threads : ReturnModule(i) /\ UNCHANGED <<searchVars, dateVars, fetchVars>>
    \/ \E i \in Threads : Join(i) /\ UNCHANGED <<searchVars, dateVars, fetchVars>>

ModuleRaceSpec == ModuleRaceInit /\ [][ModuleRaceNext]_vars

----------------------------------------------------------------------------
(* Pages fetched under any config *)

\* the bound on chunk_size
MaxChunkSize == 3

\* the bound on max_content_limit
MaxContentLimit == 8

\* the bodies the server sends
Bodies ==
    {<<"<", "t", ">", "<", "/", "h", "e", "a", "d", ">", "x", "x">>,
     <<"<", "/", "h", "e", "a", "d", ">", "<", "/", "h", "e", "a", "d", ">">>,
     <<"<", "t", ">", "x", "x", "x", "x">>,
     <<"<", "/", "h", "e", "<", "/", "h", "e", "a", "d", ">">>,
     <<>>,
     <<"<", "/", "h", "e", "a">>}

\* the strings a config gives for a Cookie header
CookieStrings == {"a=1", "a=1; b=2", "garbage", ""}

\* the "headers" dicts of a config
HeaderDicts ==
    {Merge(Merge(c, l), u) :
        c \in {EmptyDict} \cup {[k \in {"Cookie"} |-> s] : s \in CookieStrings},
        l \in {EmptyDict, [k \in {"cookie"} |-> "a=1"]},
        u \in {EmptyDict, [k \in {"User-Agent"} |-> "UA"]}}

\* the configs: none, empty, one that sets the sizes, one that sets the headers
FetchConfigs ==
    {None, EmptyDict}
    \cup {[k \in {"chunk_size", "max_content_limit"} |-> IF k = "chunk_size" THEN c ELSE l] :
             c \in 1..MaxChunkSize, l \in 0..MaxContentLimit}
    \cup {[k \in {"headers"} |-> h] : h \in HeaderDicts}
    \cup {[k \in {"headers", "timeout"} |-> IF k = "headers" THEN h ELSE 5] :
             h \in {d \in HeaderDicts : "Cookie" \in DOMAIN d}}

FetchNext ==
    \/ \E config \in FetchConfigs, body \in Bodies, ok \in BOOLEAN :
           LoadPage(config, body, ok) /\ UNCHANGED <<searchVars, dateVars, configVars, threadVars>>
    \/ \E n \in 1..MaxChunkSize :
           ReadChunk(n) /\ UNCHANGED <<searchVars, dateVars, configVars, threadVars>>
    \/ EndOfStream /\ UNCHANGED <<searchVars, dateVars, configVars, threadVars>>
    \/ ReadFails /\ UNCHANGED <<searchVars, dateVars, configVars, threadVars>>
    \/ ReturnPage /\ UNCHANGED <<searchVars, dateVars, configVars, threadVars>>
    \/ \E config \in FetchConfigs, body \in Bodies, ok \in BOOLEAN :
           LoadFullPage(config, body, ok)
           /\ UNCHANGED <<searchVars, dateVars, configVars, threadVars>>
    \/ FetchDone /\ UNCHANGED <<searchVars, dateVars, configVars, threadVars>>

FetchSpec == Init /\ [][FetchNext]_vars

----------------------------------------------------------------------------
(* Claims about the settings file and its cache (ConfigSpec) *)

\* the step is a call
Called == outcome'.tick # outcome.tick

\* C14: as load_website_metadata and create_snapshot call it, the settings file
\* is parsed once for a run of consecutive calls with the file's modification time
\* unchanged, and once more on the first call after the time has changed.  Stated
\* for calls that find valid settings.
C14_ParsedOncePerMtime ==
    [][(/\ Called
        /\ outcome'.call \in Callers
        /\ outcome.call = outcome'.call
        /\ outcome.seen.valid
        /\ outcome'.seen.valid)
       => (outcome'.search.parsed <=> outcome'.seen.mtime # outcome.seen.mtime)]_vars

\* C15: search_config_for_domain returns None and raises nothing when the
\* settings file does not exist and when it is no valid JSON.
C15_NoRaiseOnReadFailure ==
    (outcome.call \in Callers \cup {"search_config_for_domain"} /\ ~outcome.seen.valid) =>
        /\ outcome.search.raised = ""
        /\ outcome.search.config = None

\* the cache entry that reflects the file
CacheOf(file) ==
    IF ~file.exists THEN Cache(None, 0)
    ELSE IF ~file.valid THEN Cache(JSON_ERROR, file.mtime)
    ELSE Cache(DomainMap(process_path(file.data)), file.mtime)

\* C16: after every call on a shared cache the cache reflects the file as the call
\* found it (missing: value and mtime None; corrupt: the sentinel with the file's
\* mtime; valid: the parsed content), and a cached sentinel is reparsed exactly
\* when the mtime has changed.
C16_CacheReflectsFile ==
    [][(Called /\ outcome'.call = "search_config_for_domain") =>
          /\ settings_cache' = CacheOf(config_file)
          /\ (settings_cache.cache = JSON_ERROR /\ config_file.exists) =>
                 (outcome'.search.parsed <=> settings_cache.mtime # config_file.mtime)]_vars

----------------------------------------------------------------------------
(* Claims about the lookup (ResolveSpec) *)

Searched == outcome.call \in Callers \cup {"search_config_for_domain"} /\ outcome.seen.valid

\* the settings map the search read
SeenMap == process_path(outcome.seen.data)

\* the first wildcard key, in the order of the file, that matches the host
FirstWildcard(m, domain) ==
    IF \E i \in DOMAIN m : WildcardMatches(m[i][1], domain)
    THEN m[CHOOSE i \in DOMAIN m :
              /\ WildcardMatches(m[i][1], domain)
              /\ \A j \in 1..(i - 1) : ~WildcardMatches(m[j][1], domain)][2]
    ELSE None

\* C17: the entry selected is the one under the key equal to the host when that
\* key exists, whatever its value, and else the entry of the first wildcard key,
\* in the order of the file, whose suffix the host ends with.
C17_ExactThenFirstWildcard ==
    Searched =>
        outcome.search.matched =
            IF get_domain(outcome.arg) \in MapKeys(SeenMap)
            THEN MapItem(SeenMap, get_domain(outcome.arg))
            ELSE FirstWildcard(SeenMap, get_domain(outcome.arg))

\* C18, as stated: the alias loop runs at most once per distinct key of the
\* settings map.
C18_OncePerKey == Searched => outcome.search.runs <= Cardinality(MapKeys(SeenMap))

\* C18, amended: the alias loop ends after at most one run per distinct key of the
\* settings map and one more, alias cycles and self-aliases included.
C18_OncePerKeyAndOneMore ==
    Searched => outcome.search.runs <= Cardinality(MapKeys(SeenMap)) + 1

\* the cycle a.example.com -> shared -> a.example.com has been walked
C18_Witness ==
    /\ Searched
    /\ MapGet(SeenMap, "a.example.com") = Str("shared")
    /\ MapGet(SeenMap, "shared") = Str("a.example.com")
    /\ get_domain(outcome.arg) = "a.example.com"
    /\ outcome.search.stop = "cycle"
    /\ outcome.search.runs = 2

\* C19: when the alias loop stops at a cycle or at an alias whose target is no
\* key, neither search_config_for_domain nor its callers raise.
C19_StopIsNoError ==
    (Searched /\ outcome.search.stop \in {"cycle", "unresolved"}) =>
        /\ outcome.search.raised = ""
        /\ outcome.use.raised = ""

----------------------------------------------------------------------------
(* Claims about the extension loader (LoaderSpec) *)

\* the call before was a load_module through the same cache that found the file
LoadedBefore ==
    /\ outcome.use.load.called
    /\ outcome.cache_name = outcome'.cache_name
    /\ outcome.ext_seen.exists

\* C20: load_module on a shared cache returns the cached module object without
\* executing the file while the path and the modification time are unchanged,
\* executes the file exactly once and returns the new module on the first call
\* after the time has changed, and returns None for a missing file.
C20_LoadOncePerMtime ==
    [][(Called /\ outcome'.call = "load_module") =>
          /\ ~outcome'.ext_seen.exists =>
                 /\ outcome'.use.load.module = None
                 /\ outcome'.use.raised = ""
          /\ (LoadedBefore /\ outcome'.ext_seen = outcome.ext_seen) =>
                 /\ ~outcome'.use.load.executed
                 /\ outcome'.use.load.module = outcome.use.load.module
          /\ (LoadedBefore /\ outcome'.ext_seen.exists
                  /\ outcome'.ext_seen.mtime # outcome.ext_seen.mtime) =>
                 /\ outcome'.use.load.executed
                 /\ executions' = executions + 1
                 /\ outcome'.use.load.module = Module(executions')
                 /\ outcome'.use.load.module # outcome.use.load.module]_vars

\* the extension file has been reloaded after a change
C20_Witness ==
    /\ outcome.call = "load_module"
    /\ outcome.ext_seen = [exists |-> TRUE, mtime |-> 2]
    /\ outcome.use.load.executed
    /\ outcome.use.load.module = Module(2)
    /\ module_cache[outcome.cache_name] = (ExtPath :> <<Module(2), 2>>)

----------------------------------------------------------------------------
(* Claims about extension files that are missing (LoaderSpec) and about     *)
(* stored dates that do not parse (SearchSpec)                              *)

\* C21: when the matched entry names an extension file that does not exist,
\* load_website_metadata and create_snapshot run the built-in implementation with
\* the matched entry as its config, as for an entry that names no extension.
C21_MissingExtensionKeepsConfig ==
    (/\ outcome.call \in Callers
     /\ outcome.search.raised = ""
     /\ outcome.search.config.t = "dict"
     /\ outcome.search.config.s # ""
     /\ ~outcome.ext_seen.exists) =>
        /\ outcome.use.raised = ""
        /\ outcome.use.ran = "builtin"
        /\ outcome.use.passed = outcome.search.config

\* C30: a stored date_filter_start or date_filter_end of the bundle that is no
\* valid YYYY-MM-DD date is dropped: the search built from the bundle holds None
\* in that field, never the string.
C30_UnparseableDateDropped ==
    \A f \in DateFields :
        (/\ Attached
         /\ ~Explicit(f)
         /\ Get(AttachedParams, f).t = "str"
         /\ Truthy(Get(AttachedParams, f))
         /\ ~strptime(Get(AttachedParams, f).s).ok) =>
            search.attrs[f] = None

----------------------------------------------------------------------------
(* Claims about threads on the settings cache (SettingsRaceSpec) *)

\* C22: whenever no call is in progress and the mtime recorded in the shared
\* cache is the mtime of the settings file, the cached value is the parse of the
\* file's content: no older parse is recorded under the newer mtime.  (A cached
\* None is left aside: the next call parses again when it finds None.)
C22_CacheMatchesRecordedMtime ==
    (/\ Quiescent
     /\ config_file.exists
     /\ settings_cache.mtime = config_file.mtime
     /\ settings_cache.cache # None) =>
        settings_cache.cache = CacheOf(config_file).cache

\* C29: a search_config_for_domain that found the settings file at its existence
\* check and no longer when load_settings read it returns None and raises nothing.
C29_RemovedAfterCheckGivesNone ==
    \A i \in Threads :
        (At(i, "search_config_for_domain", "done") /\ threads[i].lost) =>
            threads[i].result = ThreadResult("", None)

----------------------------------------------------------------------------
(* Claims about threads on the module cache (ModuleRaceSpec) *)

\* the entry of the extension file in the shared module cache carries the
\* file's mtime
EntryIsCurrent ==
    /\ extension_file.exists
    /\ ExtPath \in DOMAIN SharedModules
    /\ SharedModules[ExtPath][2] = extension_file.mtime

\* C23: whenever no call is in progress and the mtime of the cached entry is the
\* mtime of the extension file, the cached module was executed from the code the
\* file holds: no module of older code is recorded under the newer mtime.
C23_ModuleMatchesRecordedMtime ==
    (Quiescent /\ EntryIsCurrent) => SharedModules[ExtPath][1].code = extension_file.code

\* two calls on either side of a rewrite have both finished, each with a module
\* of its own, and the entry carries the mtime of the rewritten file
C23_Witness ==
    /\ EntryIsCurrent
    /\ extension_file.mtime >= 2
    /\ \A i \in Threads : At(i, "load_module", "done") /\ threads[i].result.value # None
    /\ threads[1].result.value # threads[2].result.value
    /\ threads[1].result.value.code # threads[2].result.value.code

----------------------------------------------------------------------------
(* Claims about the page fetch (FetchSpec) *)

\* load_page has left its read loop
LoopLeft == fetch.call = "load_page" /\ fetch.pc \in {"decode", "finished"} /\ fetch.stop # ""

\* the bytes the response has delivered
Received == SubSeq(fetch.body, 1, fetch.pos)

\* the body up to the end of the first marker
ThroughFirstMarker(body) == SubSeq(body, 1, Find(body, end_of_head) + Len(end_of_head) - 1)

\* C24: load_page goes on reading only while the bytes buffered do not contain
\* "</head>"; when the bytes received contain it, whatever the chunks and also
\* when the same chunk passes the size cap, the loop has stopped at the marker and
\* the buffer is the body up to the end of the first marker.
C24_StopsAtFirstMarker ==
    /\ (fetch.pc = "reading" /\ fetch.content # None) =>
           ~Contains(fetch.content.chars, end_of_head)
    /\ (LoopLeft /\ Contains(Received, end_of_head)) =>
           /\ fetch.stop = "marker"
           /\ fetch.content = Bytes(ThroughFirstMarker(fetch.body))

\* the marker was completed by a chunk shorter than the marker, which carried
\* bytes beyond it and took the size over the cap
C24_Witness ==
    /\ LoopLeft
    /\ fetch.stop = "marker"
    /\ fetch.iteration >= 2
    /\ fetch.last < Len(end_of_head)
    /\ fetch.pos > Len(fetch.content.chars)
    /\ fetch.size > fetch.max_content_limit

\* C25: the buffer never holds more than max_content_limit + chunk_size bytes,
\* and load_page reads on only while the accumulated size does not exceed
\* max_content_limit.
C25_BufferBounded ==
    /\ (fetch.call = "load_page" /\ fetch.content # None) =>
           Len(fetch.content.chars) <= fetch.max_content_limit + fetch.chunk_size
    /\ fetch.pc = "reading" => fetch.size <= fetch.max_content_limit

\* the cap stopped the read with the buffer at max_content_limit + chunk_size
C25_Witness ==
    /\ LoopLeft
    /\ fetch.stop = "limit"
    /\ fetch.iteration >= 2
    /\ Len(fetch.content.chars) = fetch.max_content_limit + fetch.chunk_size

\* C26: when load_page has returned or raised, the response is closed.
C26_ReleasedOnEveryExit ==
    (fetch.call = "load_page" /\ fetch.pc = "finished") => ~fetch.open

\* load_page raised while reading, after it had buffered a chunk
C26_Witness ==
    /\ fetch.call = "load_page"
    /\ fetch.pc = "finished"
    /\ fetch.stop = "error"
    /\ fetch.content # None
    /\ fetch.result.raised # ""

\* C27: when reading a chunk fails after a chunk was buffered, load_page returns
\* the text of the bytes buffered and _load_website_metadata extracts the
\* metadata from it.
C27_ErrorKeepsBuffer ==
    (/\ fetch.call = "load_page"
     /\ fetch.pc = "finished"
     /\ fetch.stop = "error"
     /\ fetch.content # None) =>
        /\ fetch.result = PageResult("", Text(fetch.content.chars))
        /\ fetch.metadata = Extract(Text(fetch.content.chars))

\* the name of a header in lower case, for the names of the model
Lower(k) == IF k = "Cookie" THEN "cookie" ELSE k

\* the cookies a request carries in its headers
HeaderCookies ==
    UNION {DOMAIN SimpleCookie(request.headers[k]) :
              k \in {h \in DOMAIN request.headers : Lower(h) = "cookie"}}

\* C28: no request carries the same cookie in its headers and in its cookies
\* argument.
C28_CookieNeverBothWays ==
    request.call # "" => HeaderCookies \cap DOMAIN request.cookies = {}

====
